---- MODULE Spec2Model ----
(***************************************************************************)
(* Library management (src/ailib.py): the loan / reservation life cycle of *)
(* a physical copy (BookItem), the members' loan, reservation and fine     *)
(* lists, and the library's fine computation.                              *)
(*                                                                         *)
(* Objects are identified by small integers: members are 1..NumMembers,    *)
(* copies are numbered in the order they are created.  Dates are day       *)
(* numbers (date ordinals), a timedelta is a number of days.  Money is     *)
(* counted in hundredths of the currency unit, so that 0.50 is 50.         *)
(*                                                                         *)
(* Every method of the source is a pure operator from the heap before the  *)
(* call (and the arguments) to the heap after the call and the returned    *)
(* value; the actions apply these operators to the current heap.           *)
(***************************************************************************)
EXTENDS Integers, Sequences, FiniteSets

\* ------------------------------------------------------------------ bounds

\* Number of Member objects.
NumMembers == 2
\* Number of BookItem objects the general specification creates.
NumItems == 3
\* Checkout dates are the days 0..MaxDay.
MaxDay == 1
\* Besides the default loan period, loan periods 1..MaxShortLoan are used.
MaxShortLoan == 1
\* Return dates are the days 0..MaxReturnDay.
MaxReturnDay == 3
\* At most MaxFines Fine objects are created in one behaviour.
MaxFines == 1

\* ------------------------------------------------------- program constants

\* Python's None (an unset Optional field).
None == -1
\* The checkout limit of BookItem.check_out.
MaxCheckout == 5
\* The default of loan_period_days.
DefaultLoanPeriod == 14
\* Library.fine_rate_per_day, 0.50, in hundredths.
fine_rate_per_day == 50

\* BookStatus
AVAILABLE == "available"
CHECKED_OUT == "checked_out"
RESERVED == "reserved"
BookStatus == {AVAILABLE, CHECKED_OUT, RESERVED}

Members == 1..NumMembers
CheckoutDays == 0..MaxDay
LoanPeriods == {DefaultLoanPeriod} \cup (1..MaxShortLoan)
ReturnDays == 0..MaxReturnDay

\* ------------------------------------------------------------------- state

VARIABLES
    status,             \* BookItem.status, per copy
    borrower,           \* BookItem.borrower, a member or None
    borrowed_date,      \* BookItem.borrowed_date, a day or None
    due_date,           \* BookItem.due_date, a day or None
    reserved_by,        \* BookItem.reserved_by, a member or None
    checked_out_books,  \* Member.checked_out_books, a list of copies
    reserved_books,     \* Member.reserved_books, a list of copies
    fines,              \* Member.fines, a list of Fine records
    notified            \* the Member.receive_notification calls made by the
                        \* last call, in order

vars == <<status, borrower, borrowed_date, due_date, reserved_by,
          checked_out_books, reserved_books, fines, notified>>

\* The copies created so far (Library.book_items): the per-copy fields are
\* sequences indexed by the copy.
Items == DOMAIN status

\* The heap as one value.
Heap ==
    [status |-> status, borrower |-> borrower, borrowed_date |-> borrowed_date,
     due_date |-> due_date, reserved_by |-> reserved_by,
     checked_out_books |-> checked_out_books, reserved_books |-> reserved_books,
     fines |-> fines]

SetHeap(h) ==
    /\ status' = h.status
    /\ borrower' = h.borrower
    /\ borrowed_date' = h.borrowed_date
    /\ due_date' = h.due_date
    /\ reserved_by' = h.reserved_by
    /\ checked_out_books' = h.checked_out_books
    /\ reserved_books' = h.reserved_books
    /\ fines' = h.fines

\* ----------------------------------------------------------- list helpers

\* x in list
In(x, list) == \E i \in DOMAIN list : list[i] = x

\* list.remove(x): the list without its first occurrence of x.
RECURSIVE Remove(_, _)
Remove(list, x) ==
    IF list = <<>> THEN <<>>
    ELSE IF Head(list) = x THEN Tail(list)
    ELSE <<Head(list)>> \o Remove(Tail(list), x)

\* The number of occurrences of x in list.
RECURSIVE Count(_, _)
Count(list, x) ==
    IF list = <<>> THEN 0
    ELSE (IF Head(list) = x THEN 1 ELSE 0) + Count(Tail(list), x)

\* ---------------------------------------------------------------- BookItem

\* A variant of is_available that forgets the reservation.
is_available_status_only(s, c) ==
    s.status[c] = AVAILABLE

\* BookItem.is_available
is_available(s, c) ==
    s.status[c] = AVAILABLE /\ s.reserved_by[c] = None

\* A variant of check_out that marks the copy before it tests the limit.
check_out_marks_before_limit(s, c, m, checkout_date, loan_period_days) ==
    IF ~(s.status[c] = AVAILABLE /\ s.reserved_by[c] = None)
        THEN [heap |-> s, ret |-> FALSE]
    ELSE IF Len(s.checked_out_books[m]) >= MaxCheckout
        THEN [heap |-> [s EXCEPT !.status[c] = CHECKED_OUT, !.borrower[c] = m],
              ret |-> FALSE]
    ELSE [heap |->
            [s EXCEPT !.status[c] = CHECKED_OUT,
                      !.borrower[c] = m,
                      !.borrowed_date[c] = checkout_date,
                      !.due_date[c] = checkout_date + loan_period_days,
                      !.reserved_by[c] = None,
                      !.checked_out_books[m] = Append(@, c),
                      !.reserved_books[m] =
                          IF In(c, @) THEN Remove(@, c) ELSE @],
          ret |-> TRUE]

\* A variant of check_out that always lends for the default period.
check_out_fixed_period(s, c, m, checkout_date, loan_period_days) ==
    IF ~(s.status[c] = AVAILABLE /\ s.reserved_by[c] = None)
        THEN [heap |-> s, ret |-> FALSE]
    ELSE IF Len(s.checked_out_books[m]) >= MaxCheckout
        THEN [heap |-> s, ret |-> FALSE]
    ELSE [heap |->
            [s EXCEPT !.status[c] = CHECKED_OUT,
                      !.borrower[c] = m,
                      !.borrowed_date[c] = checkout_date,
                      !.due_date[c] = checkout_date + DefaultLoanPeriod,
                      !.reserved_by[c] = None,
                      !.checked_out_books[m] = Append(@, c),
                      !.reserved_books[m] =
                          IF In(c, @) THEN Remove(@, c) ELSE @],
          ret |-> TRUE]

\* A variant of check_out whose limit test is off by one (> for >=).
check_out_off_by_one(s, c, m, checkout_date, loan_period_days) ==
    IF ~(s.status[c] = AVAILABLE /\ s.reserved_by[c] = None)
        THEN [heap |-> s, ret |-> FALSE]
    ELSE IF Len(s.checked_out_books[m]) > MaxCheckout
        THEN [heap |-> s, ret |-> FALSE]
    ELSE [heap |->
            [s EXCEPT !.status[c] = CHECKED_OUT,
                      !.borrower[c] = m,
                      !.borrowed_date[c] = checkout_date,
                      !.due_date[c] = checkout_date + loan_period_days,
                      !.reserved_by[c] = None,
                      !.checked_out_books[m] = Append(@, c),
                      !.reserved_books[m] =
                          IF In(c, @) THEN Remove(@, c) ELSE @],
          ret |-> TRUE]

\* A variant of check_out that looks at the status only and lends a reserved
\* copy to whoever asks.
check_out_ignores_reservation(s, c, m, checkout_date, loan_period_days) ==
    IF s.status[c] # AVAILABLE THEN [heap |-> s, ret |-> FALSE]
    ELSE IF Len(s.checked_out_books[m]) >= MaxCheckout
        THEN [heap |-> s, ret |-> FALSE]
    ELSE [heap |->
            [s EXCEPT !.status[c] = CHECKED_OUT,
                      !.borrower[c] = m,
                      !.borrowed_date[c] = checkout_date,
                      !.due_date[c] = checkout_date + loan_period_days,
                      !.reserved_by[c] = None,
                      !.checked_out_books[m] = Append(@, c),
                      !.reserved_books[m] =
                          IF In(c, @) THEN Remove(@, c) ELSE @],
          ret |-> TRUE]

\* BookItem.check_out(member, checkout_date, loan_period_days)
check_out(s, c, m, checkout_date, loan_period_days) ==
    IF ~is_available(s, c) THEN [heap |-> s, ret |-> FALSE]
    ELSE IF Len(s.checked_out_books[m]) >= MaxCheckout
        THEN [heap |-> s, ret |-> FALSE]
    ELSE IF s.reserved_by[c] # None /\ s.reserved_by[c] # m
        THEN [heap |-> s, ret |-> FALSE]
    ELSE [heap |->
            [s EXCEPT !.status[c] = CHECKED_OUT,
                      !.borrower[c] = m,
                      !.borrowed_date[c] = checkout_date,
                      !.due_date[c] = checkout_date + loan_period_days,
                      !.reserved_by[c] = None,
                      !.checked_out_books[m] = Append(@, c),
                      !.reserved_books[m] =
                          IF In(c, @) THEN Remove(@, c) ELSE @],
          ret |-> TRUE]

\* A variant of return_book that leaves the copy in the borrower's list.
return_book_keeps_list(s, c, return_date) ==
    IF s.status[c] # CHECKED_OUT \/ s.borrower[c] = None
        THEN [heap |-> s, ret |-> FALSE]
    ELSE [heap |->
            [s EXCEPT !.status[c] = AVAILABLE,
                      !.borrower[c] = None,
                      !.borrowed_date[c] = None,
                      !.due_date[c] = None],
          ret |-> TRUE]

\* A variant of return_book that does not clear the due date.
return_book_keeps_due_date(s, c, return_date) ==
    IF s.status[c] # CHECKED_OUT \/ s.borrower[c] = None
        THEN [heap |-> s, ret |-> FALSE]
    ELSE LET b == s.borrower[c] IN
         [heap |->
            [s EXCEPT !.checked_out_books[b] =
                          IF In(c, @) THEN Remove(@, c) ELSE @,
                      !.status[c] = AVAILABLE,
                      !.borrower[c] = None,
                      !.borrowed_date[c] = None],
          ret |-> TRUE]

\* A variant of return_book without its guard: it resets whatever copy it is
\* given.
return_book_unguarded(s, c, return_date) ==
    LET b == s.borrower[c] IN
    [heap |->
        [s EXCEPT !.checked_out_books =
                      IF b = None THEN @
                      ELSE [@ EXCEPT ![b] = IF In(c, @) THEN Remove(@, c) ELSE @],
                  !.status[c] = AVAILABLE,
                  !.borrower[c] = None,
                  !.borrowed_date[c] = None,
                  !.due_date[c] = None],
     ret |-> TRUE]

\* A variant of return_book that charges the borrower for a late return, as
\* the disabled line of the source would.
return_book_charges_late_return(s, c, return_date) ==
    IF s.status[c] # CHECKED_OUT \/ s.borrower[c] = None
        THEN [heap |-> s, ret |-> FALSE]
    ELSE LET b == s.borrower[c] IN
         [heap |->
            [s EXCEPT !.checked_out_books[b] =
                          IF In(c, @) THEN Remove(@, c) ELSE @,
                      !.fines[b] =
                          IF return_date > s.due_date[c]
                          THEN Append(@, [member |-> b, book_item |-> c,
                                          amount |-> (return_date - s.due_date[c]) * 10,
                                          date_issued |-> return_date,
                                          paid |-> FALSE])
                          ELSE @,
                      !.status[c] = AVAILABLE,
                      !.borrower[c] = None,
                      !.borrowed_date[c] = None,
                      !.due_date[c] = None],
          ret |-> TRUE]

\* BookItem.return_book(return_date)
return_book(s, c, return_date) ==
    IF s.status[c] # CHECKED_OUT \/ s.borrower[c] = None
        THEN [heap |-> s, ret |-> FALSE]
    ELSE LET b == s.borrower[c] IN
         [heap |->
            [s EXCEPT !.checked_out_books[b] =
                          IF In(c, @) THEN Remove(@, c) ELSE @,
                      !.status[c] = AVAILABLE,
                      !.borrower[c] = None,
                      !.borrowed_date[c] = None,
                      !.due_date[c] = None],
          ret |-> TRUE]

\* A variant of reserve that does not test for an earlier reservation.
reserve_ignores_reservation(s, c, m) ==
    IF s.borrower[c] = m THEN [heap |-> s, ret |-> FALSE]
    ELSE IF s.status[c] = AVAILABLE
        THEN [heap |->
                [s EXCEPT !.reserved_by[c] = m,
                          !.reserved_books[m] = Append(@, c)],
              ret |-> TRUE]
    ELSE [heap |-> s, ret |-> FALSE]

\* A variant of reserve that does not test the status: it reserves a copy
\* that is on loan to another member.
reserve_ignores_status(s, c, m) ==
    IF s.reserved_by[c] # None THEN [heap |-> s, ret |-> FALSE]
    ELSE IF s.borrower[c] = m THEN [heap |-> s, ret |-> FALSE]
    ELSE [heap |->
            [s EXCEPT !.reserved_by[c] = m,
                      !.reserved_books[m] = Append(@, c)],
          ret |-> TRUE]

\* BookItem.reserve(member)
reserve(s, c, m) ==
    IF s.reserved_by[c] # None THEN [heap |-> s, ret |-> FALSE]
    ELSE IF s.borrower[c] = m THEN [heap |-> s, ret |-> FALSE]
    ELSE IF s.status[c] = AVAILABLE
        THEN [heap |->
                [s EXCEPT !.reserved_by[c] = m,
                          !.reserved_books[m] = Append(@, c)],
              ret |-> TRUE]
    ELSE [heap |-> s, ret |-> FALSE]

\* ------------------------------------------------------------------ Member

\* Member.check_out_book: the defaults of check_out, today and 14 days.
check_out_book(s, m, c, today) == check_out(s, c, m, today, DefaultLoanPeriod)

\* A variant of Member.return_book that lets a member return only the
\* member's own loans.
member_return_book_own_loans_only(s, m, c, today) ==
    IF s.borrower[c] = m THEN return_book(s, c, today)
    ELSE [heap |-> s, ret |-> FALSE]

\* Member.return_book: the calling member m is not passed on.
member_return_book(s, m, c, today) == return_book(s, c, today)

\* Member.reserve_book
reserve_book(s, m, c) == reserve(s, c, m)

\* Member.get_fines: the unpaid fines.
get_fines(s, m) == SelectSeq(s.fines[m], LAMBDA fine : ~fine.paid)

\* sum(fine.amount for fine in list)
RECURSIVE SumAmounts(_)
SumAmounts(list) ==
    IF list = <<>> THEN 0 ELSE Head(list).amount + SumAmounts(Tail(list))

\* Member.get_total_fine_amount
get_total_fine_amount(s, m) == SumAmounts(get_fines(s, m))

\* -------------------------------------------------------------------- Fine

\* Fine.calculate_fine(days_overdue, fine_rate)
Fine_calculate_fine(days_overdue, fine_rate) ==
    IF days_overdue > 0 THEN days_overdue * fine_rate ELSE 0

\* Fine.__init__
NewFine(member, book_item, amount, date_issued) ==
    [member |-> member, book_item |-> book_item, amount |-> amount,
     date_issued |-> date_issued, paid |-> FALSE]

\* A variant of calculate_fine that counts the due day as a day overdue.
calculate_fine_counts_due_day(s, c, return_date) ==
    IF s.due_date[c] = None \/ return_date <= s.due_date[c]
        THEN [heap |-> s, ret |-> <<>>, raised |-> FALSE]
    ELSE LET days_overdue == return_date - s.due_date[c] + 1
             fine_amount == Fine_calculate_fine(days_overdue, fine_rate_per_day)
             fine == NewFine(s.borrower[c], c, fine_amount, return_date)
         IN IF s.borrower[c] = None
                THEN [heap |-> s, ret |-> <<>>, raised |-> TRUE]
                ELSE [heap |-> [s EXCEPT !.fines[s.borrower[c]] = Append(@, fine)],
                      ret |-> <<fine>>, raised |-> FALSE]

\* A variant of calculate_fine that fines a loan once only: it returns
\* nothing when the borrower already has a Fine for the copy.
calculate_fine_once_per_copy(s, c, return_date) ==
    IF s.due_date[c] = None \/ return_date <= s.due_date[c]
        THEN [heap |-> s, ret |-> <<>>, raised |-> FALSE]
    ELSE LET days_overdue == return_date - s.due_date[c]
             fine_amount == Fine_calculate_fine(days_overdue, fine_rate_per_day)
             fine == NewFine(s.borrower[c], c, fine_amount, return_date)
         IN IF s.borrower[c] = None
                THEN [heap |-> s, ret |-> <<>>, raised |-> TRUE]
            ELSE IF \E i \in DOMAIN s.fines[s.borrower[c]] :
                        s.fines[s.borrower[c]][i].book_item = c
                THEN [heap |-> s, ret |-> <<>>, raised |-> FALSE]
            ELSE [heap |-> [s EXCEPT !.fines[s.borrower[c]] = Append(@, fine)],
                  ret |-> <<fine>>, raised |-> FALSE]

\* Library.calculate_fine(book_item, return_date): ret is the Optional[Fine]
\* returned, <<>> for None and <<fine>> for a Fine.  With a due date but no
\* borrower the source raises AttributeError at the append: the call then
\* returns nothing and has changed nothing.
calculate_fine(s, c, return_date) ==
    IF s.due_date[c] = None \/ return_date <= s.due_date[c]
        THEN [heap |-> s, ret |-> <<>>, raised |-> FALSE]
    ELSE LET days_overdue == return_date - s.due_date[c]
             fine_amount == Fine_calculate_fine(days_overdue, fine_rate_per_day)
             fine == NewFine(s.borrower[c], c, fine_amount, return_date)
         IN IF fine_amount > 0
                THEN IF s.borrower[c] = None
                        THEN [heap |-> s, ret |-> <<>>, raised |-> TRUE]
                        ELSE [heap |-> [s EXCEPT !.fines[s.borrower[c]] = Append(@, fine)],
                              ret |-> <<fine>>, raised |-> FALSE]
                ELSE [heap |-> s, ret |-> <<>>, raised |-> FALSE]

\* The number of Fine objects created so far.
RECURSIVE SumLen(_, _)
SumLen(f, S) ==
    IF S = {} THEN 0
    ELSE LET x == CHOOSE y \in S : TRUE IN Len(f[x]) + SumLen(f, S \ {x})

TotalFines == SumLen(fines, Members)

\* ----------------------------------------------------- NotificationService

\* NotificationService.notify_overdue and Member.receive_notification: the
\* notification member m receives about copy c.  (The message also names the
\* book's title; its day count is taken from a second date.today(), the same
\* day as the caller's.)
notify_overdue(s, m, c, today) ==
    [member |-> m, book_item |-> c, days_overdue |-> today - s.due_date[c]]

\* The loop of Library.send_overdue_notifications over book_items, from
\* copy i on: the notifications it sends, in order.
RECURSIVE overdue_scan(_, _, _)
overdue_scan(s, today, i) ==
    IF i > Len(s.status) THEN <<>>
    ELSE (IF /\ s.status[i] = CHECKED_OUT
             /\ s.due_date[i] # None
             /\ today > s.due_date[i]
             /\ s.borrower[i] # None
          THEN <<notify_overdue(s, s.borrower[i], i, today)>>
          ELSE <<>>) \o overdue_scan(s, today, i + 1)

\* A variant of send_overdue_notifications that takes the due day for
\* overdue.
send_overdue_notifications_from_due_day(s, today) ==
    [heap |-> s, sent |-> overdue_scan(s, today + 1, 1)]

\* Library.send_overdue_notifications
send_overdue_notifications(s, today) ==
    [heap |-> s, sent |-> overdue_scan(s, today, 1)]

\* ----------------------------------------------------------------- actions

\* The members exist, with empty lists (Member.__init__); no copy exists yet.
Init ==
    /\ status = <<>>
    /\ borrower = <<>>
    /\ borrowed_date = <<>>
    /\ due_date = <<>>
    /\ reserved_by = <<>>
    /\ checked_out_books = [m \in Members |-> <<>>]
    /\ reserved_books = [m \in Members |-> <<>>]
    /\ fines = [m \in Members |-> <<>>]
    /\ notified = <<>>

\* BookItem.__init__ followed by Library.add_book_item, for at most n copies.
AddBookItem(n) ==
    /\ Len(status) < n
    /\ status' = Append(status, AVAILABLE)
    /\ borrower' = Append(borrower, None)
    /\ borrowed_date' = Append(borrowed_date, None)
    /\ due_date' = Append(due_date, None)
    /\ reserved_by' = Append(reserved_by, None)
    /\ UNCHANGED <<checked_out_books, reserved_books, fines>>
    /\ notified' = <<>>

CheckOut(c, m, checkout_date, loan_period_days) ==
    /\ SetHeap(check_out(Heap, c, m, checkout_date, loan_period_days).heap)
    /\ notified' = <<>>

ReturnBook(c, return_date) ==
    /\ SetHeap(return_book(Heap, c, return_date).heap)
    /\ notified' = <<>>

Reserve(c, m) ==
    /\ SetHeap(reserve(Heap, c, m).heap)
    /\ notified' = <<>>

CheckOutBook(m, c, today) ==
    /\ SetHeap(check_out_book(Heap, m, c, today).heap)
    /\ notified' = <<>>

MemberReturnBook(m, c, today) ==
    /\ SetHeap(member_return_book(Heap, m, c, today).heap)
    /\ notified' = <<>>

ReserveBook(m, c) ==
    /\ SetHeap(reserve_book(Heap, m, c).heap)
    /\ notified' = <<>>

\* A call that would create a Fine is taken only while fewer than MaxFines
\* exist.
CalculateFine(c, return_date) ==
    LET r == calculate_fine(Heap, c, return_date) IN
    /\ r.ret # <<>> => TotalFines < MaxFines
    /\ SetHeap(r.heap)
    /\ notified' = <<>>

SendOverdueNotifications(today) ==
    LET r == send_overdue_notifications(Heap, today) IN
    /\ SetHeap(r.heap)
    /\ notified' = r.sent

\* The copies' own interface (BookItem) and the library's fine computation,
\* with every argument.
Next ==
    \/ AddBookItem(NumItems)
    \/ \E c \in Items, m \in Members, d \in CheckoutDays, p \in LoanPeriods :
            CheckOut(c, m, d, p)
    \/ \E c \in Items, d \in ReturnDays : ReturnBook(c, d)
    \/ \E c \in Items, m \in Members : Reserve(c, m)
    \/ \E c \in Items, d \in ReturnDays : CalculateFine(c, d)

Spec == Init /\ [][Next]_vars

\* The copies' own interface and the library's overdue notifications.
NextNotify ==
    \/ AddBookItem(NumItems)
    \/ \E c \in Items, m \in Members, d \in CheckoutDays, p \in LoanPeriods :
            CheckOut(c, m, d, p)
    \/ \E c \in Items, d \in ReturnDays : ReturnBook(c, d)
    \/ \E c \in Items, m \in Members : Reserve(c, m)
    \/ \E d \in ReturnDays : SendOverdueNotifications(d)

SpecNotify == Init /\ [][NextNotify]_vars

\* The members' interface (Member), which passes the defaults on, on one
\* day, with one copy more than the checkout limit.
NextLimit ==
    \/ AddBookItem(MaxCheckout + 1)
    \/ \E c \in Items, m \in Members : CheckOutBook(m, c, 0)
    \/ \E c \in Items, m \in Members : MemberReturnBook(m, c, 0)
    \/ \E c \in Items, m \in Members : ReserveBook(m, c)

SpecLimit == Init /\ [][NextLimit]_vars

\* ------------------------------------------------------------ derived state

\* The states of a copy as the specification derives them from borrower and
\* reserved_by.
Free(s, c) == s.borrower[c] = None /\ s.reserved_by[c] = None
ReservedBy(s, c, m) == s.borrower[c] = None /\ s.reserved_by[c] = m
Reserved(s, c) == s.borrower[c] = None /\ s.reserved_by[c] # None
Loaned(s, c) == s.borrower[c] # None

\* Copy c has the same fields in heaps s and t.
SameItem(s, t, c) ==
    /\ s.status[c] = t.status[c]
    /\ s.borrower[c] = t.borrower[c]
    /\ s.borrowed_date[c] = t.borrowed_date[c]
    /\ s.due_date[c] = t.due_date[c]
    /\ s.reserved_by[c] = t.reserved_by[c]

\* Member m has the same lists in heaps s and t.
SameMember(s, t, m) ==
    /\ s.checked_out_books[m] = t.checked_out_books[m]
    /\ s.reserved_books[m] = t.reserved_books[m]
    /\ s.fines[m] = t.fines[m]

\* ------------------------------------------------------------------ claims

\* C1: check_out(m) on copy c returns true if and only if c is Free or is
\* reserved by m itself, and m has fewer than 5 copies in checked_out_books.
\* (The code refuses every reserved copy, the reserver's own included.)
C1_CheckOutIffFreeOrOwnReservation ==
    \A c \in Items, m \in Members, d \in CheckoutDays, p \in LoanPeriods :
        check_out(Heap, c, m, d, p).ret
            <=> /\ Free(Heap, c) \/ ReservedBy(Heap, c, m)
                /\ Len(checked_out_books[m]) < MaxCheckout

\* C2: a check_out that returns false has changed nothing, and check_out
\* returns false on a copy that is on loan, on a copy reserved by another
\* member, and for a member who already has 5 loans.
C2_FailedCheckOutChangesNothing ==
    \A c \in Items, m \in Members, d \in CheckoutDays, p \in LoanPeriods :
        LET r == check_out(Heap, c, m, d, p) IN
        /\ ~r.ret => r.heap = Heap
        /\ ( \/ Loaned(Heap, c)
             \/ (reserved_by[c] # None /\ reserved_by[c] # m)
             \/ Len(checked_out_books[m]) >= MaxCheckout ) => ~r.ret

\* C2, witness: a member with 5 loans is refused a sixth copy that is Free.
C2_SixthCheckOutRefused ==
    \E c \in Items, m \in Members :
        /\ Len(checked_out_books[m]) = MaxCheckout
        /\ Free(Heap, c)
        /\ ~check_out_book(Heap, m, c, 0).ret

\* C3: a check_out(m, D, P) that returns true leaves the copy on loan to m
\* with borrowed_date D, due_date D + P, status CHECKED_OUT and no
\* reservation; the copy is appended once to m.checked_out_books and is not
\* in m.reserved_books; no other copy and no other member is changed.
C3_SuccessfulCheckOut ==
    \A c \in Items, m \in Members, d \in CheckoutDays, p \in LoanPeriods :
        LET r == check_out(Heap, c, m, d, p) IN
        r.ret =>
            /\ r.heap.status[c] = CHECKED_OUT
            /\ r.heap.borrower[c] = m
            /\ r.heap.borrowed_date[c] = d
            /\ r.heap.due_date[c] = d + p
            /\ (p = DefaultLoanPeriod => r.heap.due_date[c] = d + 14)
            /\ r.heap.reserved_by[c] = None
            /\ r.heap.checked_out_books[m] = checked_out_books[m] \o <<c>>
            /\ Count(r.heap.checked_out_books[m], c) = 1
            /\ ~In(c, r.heap.reserved_books[m])
            /\ r.heap.fines[m] = fines[m]
            /\ \A c2 \in Items \ {c} : SameItem(r.heap, Heap, c2)
            /\ \A m2 \in Members \ {m} : SameMember(r.heap, Heap, m2)

\* C3, witness: a copy is on loan for a period other than the default, and
\* heads its borrower's list of two loans.
C3_LoanedForShortPeriod ==
    \E c \in Items :
        /\ status[c] = CHECKED_OUT
        /\ borrower[c] # None
        /\ due_date[c] # borrowed_date[c] + DefaultLoanPeriod
        /\ Len(checked_out_books[borrower[c]]) = 2
        /\ checked_out_books[borrower[c]][1] = c

\* C4: reserve(m) returns true exactly when the copy is Free; a reserve that
\* returns false has changed nothing; a reserve that returns true sets
\* reserved_by to m and appends the copy to m.reserved_books, and changes
\* nothing else.
C4_ReserveIffFree ==
    \A c \in Items, m \in Members :
        LET r == reserve(Heap, c, m) IN
        /\ r.ret <=> Free(Heap, c)
        /\ ~r.ret => r.heap = Heap
        /\ r.ret =>
            /\ ReservedBy(r.heap, c, m)
            /\ r.heap.reserved_books[m] = reserved_books[m] \o <<c>>
            /\ r.heap = [Heap EXCEPT !.reserved_by[c] = m,
                                     !.reserved_books[m] = Append(@, c)]

\* C4, witness: the scenario.  Copy 1 is on loan to member 1, so that member
\* 2's reserve of copy 1 fails (as does the borrower's own), and member 2 has
\* reserved copy 2.
C4_Scenario ==
    /\ Len(status) >= 2
    /\ borrower[1] = 1
    /\ ~reserve(Heap, 1, 2).ret
    /\ ~reserve(Heap, 1, 1).ret
    /\ reserved_by[2] = 2
    /\ reserved_books[2] = <<2>>
    /\ ~reserve(Heap, 2, 2).ret

\* C5: on a Free copy c and a member m with fewer than 5 loans, check_out(m)
\* followed by return_book both succeed and leave c Free, with status
\* AVAILABLE and borrower, due_date and borrowed_date unset, and c not in
\* m.checked_out_books: c and m's loan list are as before the check_out.
C5_RoundTrip ==
    \A c \in Items, m \in Members, d \in CheckoutDays, p \in LoanPeriods :
        \A back \in ReturnDays \cup {d + 5} :
            (Free(Heap, c) /\ Len(checked_out_books[m]) < MaxCheckout) =>
                LET r1 == check_out(Heap, c, m, d, p)
                    r2 == return_book(r1.heap, c, back)
                IN /\ r1.ret
                   /\ r2.ret
                   /\ Free(r2.heap, c)
                   /\ r2.heap.status[c] = AVAILABLE
                   /\ r2.heap.borrower[c] = None
                   /\ r2.heap.due_date[c] = None
                   /\ r2.heap.borrowed_date[c] = None
                   /\ ~In(c, r2.heap.checked_out_books[m])
                   /\ SameItem(r2.heap, Heap, c)
                   /\ r2.heap.checked_out_books[m] = checked_out_books[m]

\* C5, witness: a Free copy and a member who has other loans, for whom the
\* round trip runs.
C5_RoundTripRuns ==
    \E c \in Items, m \in Members :
        /\ Free(Heap, c)
        /\ Len(checked_out_books[m]) = 2
        /\ check_out(Heap, c, m, 0, DefaultLoanPeriod).ret
        /\ return_book(check_out(Heap, c, m, 0, DefaultLoanPeriod).heap, c, 5).ret

\* C6: return_book on a copy that is not on loan (Free or Reserved) returns
\* false and changes nothing.
C6_ReturnOfUnloanedCopy ==
    \A c \in Items, back \in ReturnDays :
        LET r == return_book(Heap, c, back) IN
        ~Loaned(Heap, c) => (~r.ret /\ r.heap = Heap)

\* C6, witness: a Free copy and a Reserved copy, both refused, beside a copy
\* on loan.
C6_UnloanedCopiesRefused ==
    \E c1 \in Items, c2 \in Items, c3 \in Items :
        /\ Free(Heap, c1) /\ ~return_book(Heap, c1, 0).ret
        /\ Reserved(Heap, c2) /\ ~return_book(Heap, c2, 0).ret
        /\ Loaned(Heap, c3)

\* C7: every member's checked_out_books holds at most 5 copies, in every
\* state that check_out, return_book and reserve reach and after any
\* calculate_fine call in such a state.
C7_AtMostFiveLoans ==
    /\ \A m \in Members : Len(checked_out_books[m]) <= 5
    /\ \A c \in Items, d \in ReturnDays \cup {DefaultLoanPeriod + 1}, m \in Members :
            Len(calculate_fine(Heap, c, d).heap.checked_out_books[m]) <= 5

\* C7, witness: a member has 5 loans, one of them overdue on the day the
\* fine is computed, and a further copy is Free.
C7_FiveLoans ==
    \E m \in Members, c \in Items :
        /\ Len(checked_out_books[m]) = 5
        /\ Free(Heap, c)
        /\ \E c2 \in Items :
                calculate_fine(Heap, c2, DefaultLoanPeriod + 1).ret # <<>>

\* C8: is_available() is true if and only if the copy is Free: borrower
\* unset and reserved_by unset.
C8_AvailableIffFree ==
    \A c \in Items :
        /\ is_available(Heap, c) <=> Free(Heap, c)
        /\ (Reserved(Heap, c) \/ Loaned(Heap, c)) => ~is_available(Heap, c)

\* C8, witness: a Free, a Reserved and a Loaned copy side by side.
C8_OneCopyOfEachState ==
    \E c1 \in Items, c2 \in Items, c3 \in Items :
        /\ Free(Heap, c1) /\ is_available(Heap, c1)
        /\ Reserved(Heap, c2) /\ ~is_available(Heap, c2)
        /\ Loaned(Heap, c3) /\ ~is_available(Heap, c3)

C10_NoReservationOnLoanedCopy ==
    \A c \in Items : borrower[c] # None => reserved_by[c] = None

\* C10, witness: a copy on loan that another member has tried to reserve,
\* beside that member's reservation of another copy.
C10_LoanBesideReservation ==
    \E c1 \in Items, c2 \in Items, m \in Members :
        /\ borrower[c1] # None /\ borrower[c1] # m
        /\ ~reserve(Heap, c1, m).ret
        /\ reserved_by[c2] = m


\* C11: a reservation excludes everyone but the reserver.  While a copy is
\* reserved by r, no check_out by another member succeeds, and a step from a
\* state in which r holds the reservation never makes another member the
\* borrower.
C11_ReservationExcludesOthers ==
    \A c \in Items, m \in Members, d \in CheckoutDays, p \in LoanPeriods :
        LET r == check_out(Heap, c, m, d, p) IN
        (reserved_by[c] # None /\ m # reserved_by[c]) =>
            /\ ~r.ret
            /\ r.heap.borrower[c] \in {None, reserved_by[c]}
            /\ r.heap.reserved_by[c] = reserved_by[c]

\* C11, witness: a copy is reserved by one member while another member, who
\* has a loan and room for more, is refused it.
C11_OtherMemberRefused ==
    \E c \in Items, m \in Members :
        /\ Reserved(Heap, c)
        /\ reserved_by[c] # m
        /\ Len(checked_out_books[m]) = 1
        /\ ~check_out(Heap, c, m, 0, DefaultLoanPeriod).ret


\* The dates a fine is computed or a copy is returned on: the return days
\* and, for a copy with a due date, the due day and 5 and 30 days after it.
LateDays(c) ==
    ReturnDays \cup
        (IF due_date[c] = None THEN {}
         ELSE {due_date[c], due_date[c] + 5, due_date[c] + 30})

\* C12: Library.calculate_fine(copy, R) returns nothing and changes nothing
\* if due_date is unset or R <= due_date.  If R > due_date it returns a Fine
\* for copy.borrower and this copy, issued on R, unpaid, of amount
\* (R - due_date) * fine_rate_per_day (0.50 a day: 2.50 for 5 days; 0 for
\* zero or negative days), and has appended it to the borrower's fines.
C12_CalculateFine ==
    /\ Fine_calculate_fine(5, 50) = 250
    /\ \A k \in -2..0 : Fine_calculate_fine(k, fine_rate_per_day) = 0
    /\ \A c \in Items : \A back \in LateDays(c) :
        LET r == calculate_fine(Heap, c, back) IN
        /\ ~r.raised
        /\ (due_date[c] = None \/ back <= due_date[c]) =>
                (r.ret = <<>> /\ r.heap = Heap)
        /\ (due_date[c] # None /\ back > due_date[c]) =>
                /\ Len(r.ret) = 1
                /\ borrower[c] # None
                /\ r.ret[1].member = borrower[c]
                /\ r.ret[1].book_item = c
                /\ r.ret[1].date_issued = back
                /\ r.ret[1].paid = FALSE
                /\ r.ret[1].amount = (back - due_date[c]) * 50
                /\ (back = due_date[c] + 5 => r.ret[1].amount = 250)
                /\ r.heap = [Heap EXCEPT !.fines[borrower[c]] = Append(@, r.ret[1])]

\* C12, witness: a member's fines hold a Fine of 1.00 for two days overdue on
\* a copy that the member still has on loan.
C12_FineForTwoDays ==
    \E m \in Members, c \in Items :
        /\ borrower[c] = m
        /\ fines[m] = <<[member |-> m, book_item |-> c, amount |-> 100,
                         date_issued |-> due_date[c] + 2, paid |-> FALSE]>>

\* C13: check_out, return_book and reserve, successful or not and however
\* late the return, leave every member's fines as they were; a Fine is added
\* by Library.calculate_fine only.
C13_LifeCycleAddsNoFine ==
    /\ \A c \in Items, m \in Members, d \in CheckoutDays, p \in LoanPeriods :
            check_out(Heap, c, m, d, p).heap.fines = fines
    /\ \A c \in Items, m \in Members : reserve(Heap, c, m).heap.fines = fines
    /\ \A c \in Items : \A back \in LateDays(c) :
            return_book(Heap, c, back).heap.fines = fines

\* C13, witness: a copy on loan is two days overdue and its borrower already
\* has a Fine; the late return succeeds where calculate_fine would add a Fine.
C13_LateReturn ==
    \E c \in Items :
        /\ Loaned(Heap, c)
        /\ Len(fines[borrower[c]]) = 1
        /\ return_book(Heap, c, due_date[c] + 2).ret
        /\ calculate_fine(Heap, c, due_date[c] + 2).ret # <<>>


\* Copy c is on loan and its due date is before today.
Overdue(c, today) ==
    Loaned(Heap, c) /\ due_date[c] # None /\ due_date[c] < today

\* The number of notifications of the list sent that member m receives.
ReceivedBy(sent, m) == Cardinality({i \in DOMAIN sent : sent[i].member = m})

\* C14, as stated: in one call of send_overdue_notifications every member
\* who is the borrower of at least one overdue copy receives exactly one
\* notification, a member with no overdue loan receives none, and the call
\* changes no copy or member state.
C14_OneNotificationPerMember ==
    \A today \in ReturnDays :
        LET r == send_overdue_notifications(Heap, today) IN
        /\ r.heap = Heap
        /\ \A m \in Members :
            ReceivedBy(r.sent, m) =
                IF \E c \in Items : borrower[c] = m /\ Overdue(c, today)
                THEN 1 ELSE 0

\* C14, as amended: in one call of send_overdue_notifications every overdue
\* copy on loan causes exactly one notification, to its borrower, so that a
\* member receives as many notifications as the member has overdue copies
\* (none without an overdue loan); the call changes no copy or member state.
C14_OneNotificationPerOverdueCopy ==
    \A today \in ReturnDays :
        LET r == send_overdue_notifications(Heap, today) IN
        /\ r.heap = Heap
        /\ \A c \in Items :
            LET about == {i \in DOMAIN r.sent : r.sent[i].book_item = c} IN
            /\ Cardinality(about) = IF Overdue(c, today) THEN 1 ELSE 0
            /\ \A i \in about : r.sent[i].member = borrower[c]
        /\ \A m \in Members :
            ReceivedBy(r.sent, m) =
                Cardinality({c \in Items : borrower[c] = m /\ Overdue(c, today)})

\* C14, witness: one call has just notified the same member twice, about two
\* copies, both still on loan to that member, and the other member not at
\* all.
C14_TwoNotificationsToOneMember ==
    /\ Len(notified) = 2
    /\ notified[1].member = notified[2].member
    /\ notified[1].book_item # notified[2].book_item
    /\ borrower[notified[1].book_item] = notified[1].member
    /\ borrower[notified[2].book_item] = notified[2].member


\* The heaps one call of check_out, return_book or reserve, on any copy with
\* any argument, leads to from heap s.
AfterOneCall(s) ==
    {check_out(s, c, m, d, p).heap :
        c \in DOMAIN s.status, m \in Members, d \in CheckoutDays, p \in LoanPeriods}
    \cup {return_book(s, c, d).heap : c \in DOMAIN s.status, d \in ReturnDays}
    \cup {reserve(s, c, m).heap : c \in DOMAIN s.status, m \in Members}

\* Some sequence of at most k calls from heap s leaves copy c Free.
RECURSIVE CanBecomeFree(_, _, _)
CanBecomeFree(s, c, k) ==
    \/ Free(s, c)
    \/ k > 0 /\ \E t \in AfterOneCall(s) : CanBecomeFree(t, c, k - 1)

\* C15: no copy is stuck.  From every reachable state and for every copy
\* there are calls of check_out / return_book / reserve after which the copy
\* is Free again: a return for a copy on loan, and for a copy reserved by m
\* the check_out by m and then a return, two calls at most.
C15_EveryCopyCanBecomeFree ==
    \A c \in Items : CanBecomeFree(Heap, c, 2)

\* C15, what the code does instead: no step ends a reservation or lends the
\* reserved copy, so that a reserved copy stays reserved by the same member
\* for ever, whatever is called and however often.
C15_ReservedCopyStaysReserved ==
    [][\A c \in Items :
          reserved_by[c] # None =>
              (reserved_by'[c] = reserved_by[c] /\ borrower'[c] = None)]_vars


C17_ReservationBackReferences ==
    \A c \in Items :
        /\ \A m \in Members :
            /\ In(c, reserved_books[m]) <=> reserved_by[c] = m
            /\ Count(reserved_books[m], c) <= 1
        /\ Cardinality({m \in Members : In(c, reserved_books[m])}) <= 1

\* C17, witness: one member has reserved two copies, the other member the
\* third, which was on loan before.
C17_ReservationsOfTwoMembers ==
    \E m1 \in Members, m2 \in Members :
        /\ m1 # m2
        /\ reserved_books[m1] = <<2, 1>>
        /\ reserved_books[m2] = <<3>>
        /\ \E i \in DOMAIN fines[m1] : fines[m1][i].book_item = 3

\* C18: a fine is issued only while the copy is on loan.  After a successful
\* return_book, and in every state in which the copy is not on loan,
\* calculate_fine on the copy returns nothing and adds no Fine, for every
\* date however far past the old due date.
C18_NoFineAfterReturn ==
    \A c \in Items :
        /\ ~Loaned(Heap, c) =>
            \A back \in ReturnDays :
                LET f == calculate_fine(Heap, c, back) IN
                f.ret = <<>> /\ ~f.raised /\ f.heap = Heap
        /\ \A back \in LateDays(c), later \in LateDays(c) :
                LET r == return_book(Heap, c, back)
                    f == calculate_fine(r.heap, c, later)
                IN r.ret => (f.ret = <<>> /\ ~f.raised /\ f.heap = r.heap)

\* C18, witness: an overdue loan, not fined so far, is returned late; before
\* the return calculate_fine would issue a Fine, after it none.
C18_OverdueLoanReturnedUnfined ==
    \E c \in Items :
        /\ Loaned(Heap, c)
        /\ \A m \in Members : fines[m] = <<>>
        /\ calculate_fine(Heap, c, due_date[c] + 5).ret # <<>>
        /\ return_book(Heap, c, due_date[c] + 5).ret
        /\ calculate_fine(return_book(Heap, c, due_date[c] + 5).heap, c,
                          due_date[c] + 5).ret = <<>>

\* C19: calculate_fine changes the borrower's fines only, and is
\* cumulative.  Each call on a copy on loan with a date after the due date
\* appends one new unpaid Fine and leaves the copy and all loan and
\* reservation lists as they were; two such calls for the same loan leave two
\* more Fines on the borrower and raise get_total_fine_amount by the sum of
\* their amounts.
C19_FinesAccumulate ==
    \A c \in Items : \A d1 \in LateDays(c), d2 \in LateDays(c) :
        (Loaned(Heap, c) /\ d1 > due_date[c] /\ d2 > due_date[c]) =>
            LET b == borrower[c]
                r1 == calculate_fine(Heap, c, d1)
                r2 == calculate_fine(r1.heap, c, d2)
            IN /\ Len(r1.ret) = 1 /\ ~r1.ret[1].paid
               /\ Len(r2.ret) = 1 /\ ~r2.ret[1].paid
               /\ r1.heap = [Heap EXCEPT !.fines[b] = fines[b] \o r1.ret]
               /\ r2.heap = [Heap EXCEPT !.fines[b] = fines[b] \o r1.ret \o r2.ret]
               /\ \A c2 \in Items : SameItem(r2.heap, Heap, c2)
               /\ r2.heap.checked_out_books = checked_out_books
               /\ r2.heap.reserved_books = reserved_books
               /\ Len(get_fines(r2.heap, b)) = Len(get_fines(Heap, b)) + 2
               /\ get_total_fine_amount(r1.heap, b) =
                      get_total_fine_amount(Heap, b) + (d1 - due_date[c]) * 50
               /\ get_total_fine_amount(r2.heap, b) =
                      get_total_fine_amount(Heap, b)
                          + (d1 - due_date[c]) * 50 + (d2 - due_date[c]) * 50

\* C19, witness: the borrower of an overdue copy already has a Fine of 0.50
\* for that loan, and a further call issues another.
C19_SecondFineForOneLoan ==
    \E c \in Items :
        /\ Loaned(Heap, c)
        /\ Len(fines[borrower[c]]) = 1
        /\ fines[borrower[c]][1].book_item = c
        /\ get_total_fine_amount(Heap, borrower[c]) = 50
        /\ calculate_fine(Heap, c, due_date[c] + 1).ret # <<>>

\* C20: Member.return_book(copy) does not depend on the calling member.
\* Called by any member m on a copy on loan to b it succeeds, removes the
\* copy from b's checked_out_books, sets the copy Free and, when m is not b,
\* leaves m's own lists as they were; it fails exactly when the copy is not
\* on loan.
C20_ReturnByAnyMember ==
    \A c \in Items, m \in Members, today \in ReturnDays :
        LET r == member_return_book(Heap, m, c, today)
            b == borrower[c]
        IN /\ r.ret <=> Loaned(Heap, c)
           /\ \A m2 \in Members : member_return_book(Heap, m2, c, today) = r
           /\ r.ret =>
                /\ Free(r.heap, c)
                /\ ~In(c, r.heap.checked_out_books[b])
                /\ Len(r.heap.checked_out_books[b]) = Len(checked_out_books[b]) - 1
                /\ (m # b => SameMember(r.heap, Heap, m))

\* C20, witness: a copy is on loan to one member, and the other member, who
\* has a loan and a reservation of their own, returns it.
C20_ReturnedByAnotherMember ==
    \E c \in Items, m \in Members :
        /\ Loaned(Heap, c)
        /\ borrower[c] # m
        /\ Len(checked_out_books[m]) = 1
        /\ Len(reserved_books[m]) = 1
        /\ member_return_book(Heap, m, c, 0).ret

====
